---------------------------- MODULE Spec2Model ----------------------------
(***************************************************************************)
(* timeboxd: the timebox lifecycle commands and the session ledger of      *)
(* src-tauri/src/commands/timebox.rs and commands/session.rs, acting on    *)
(* the SQLite tables of database.rs.  Each Tauri command runs under the    *)
(* single Mutex<Connection> of state.rs; a command is one atomic step, and *)
(* the statement-by-statement commands further down take the lock          *)
(* explicitly.                                                             *)
(* Timestamps are whole seconds of the local clock (chrono's               *)
(* "%Y-%m-%d %H:%M:%S"); a nullable column holds NULL or Some(v).          *)
(***************************************************************************)
EXTENDS Integers, Sequences, FiniteSets, TLC

VARIABLES timeboxes, sessions, timebox_change_log, now, last, issued, db, pc

vars == <<timeboxes, sessions, timebox_change_log, now, last, issued, db, pc>>

(* The rows of the three tables. *)
store == <<timeboxes, sessions, timebox_change_log>>

(* ------------------------------ bounds -------------------------------- *)
MaxTimeboxes == 2
MaxSessions == 3
MaxTime == 1
MaxLog == 1
MaxCommands == 4
SecondsPerDay == 1

(* ------------------------- nullable columns --------------------------- *)
NULL == <<>>
Some(v) == <<v>>
IsNull(o) == o = NULL
Val(o) == o[1]

(* ------------------------ models/timebox.rs --------------------------- *)
NotStarted == "not_started"
InProgress == "in_progress"
Paused == "paused"
Completed == "completed"
Cancelled == "cancelled"
Stopped == "stopped"

(* enum TimeboxStatus: the six variants, by name.                          *)
TimeboxStatus == {"NotStarted", "InProgress", "Paused", "Completed", "Cancelled", "Stopped"}

(* TimeboxStatus::as_str: the string a variant is persisted as.            *)
as_str(v) ==
    CASE v = "NotStarted" -> "not_started"
      [] v = "InProgress" -> "in_progress"
      [] v = "Paused" -> "paused"
      [] v = "Completed" -> "completed"
      [] v = "Cancelled" -> "cancelled"
      [] v = "Stopped" -> "stopped"

(* TimeboxStatus::from_str: the variant a persisted string is read as; the *)
(* match ends in a catch-all arm, so the result is always a variant.       *)
from_str(s) ==
    CASE s = "not_started" -> "NotStarted"
      [] s = "in_progress" -> "InProgress"
      [] s = "paused" -> "Paused"
      [] s = "completed" -> "Completed"
      [] s = "cancelled" -> "Cancelled"
      [] s = "stopped" -> "Stopped"
      [] OTHER -> "NotStarted"

(* What Timebox::from_row computes for the status field of a row before    *)
(* it reads the remaining columns: from_str never fails, so the field is   *)
(* always a variant.                                                       *)
StatusRead(row) == from_str(row.status)

(* ------------------------------ rows ---------------------------------- *)
(* NewTimeboxRow with the clock written to started_at too, as an INSERT    *)
(* that names started_at among its columns would.                          *)
NewTimeboxRow_SetsStartedAt(intention, intended_duration, notes, t) ==
    [ intention |-> intention,
      notes |-> notes,
      intended_duration |-> intended_duration,
      status |-> NotStarted,
      created_at |-> t,
      updated_at |-> t,
      started_at |-> Some(t),
      completed_at |-> NULL,
      after_time_stopped_at |-> NULL,
      deleted_at |-> NULL,
      canceled_at |-> NULL,
      display_order |-> NULL,
      archived_at |-> NULL,
      finished_at |-> NULL ]

(* INSERT INTO timeboxes (intention, intended_duration, notes): the other  *)
(* columns take the defaults of the CREATE TABLE / ALTER TABLE statements. *)
NewTimeboxRow(intention, intended_duration, notes, t) ==
    [ intention |-> intention,
      notes |-> notes,
      intended_duration |-> intended_duration,
      status |-> NotStarted,
      created_at |-> t,
      updated_at |-> t,
      started_at |-> NULL,
      completed_at |-> NULL,
      after_time_stopped_at |-> NULL,
      deleted_at |-> NULL,
      canceled_at |-> NULL,
      display_order |-> NULL,
      archived_at |-> NULL,
      finished_at |-> NULL ]

(* INSERT INTO sessions (timebox_id, started_at) *)
NewSessionRow(id, t) ==
    [ timebox_id |-> id, started_at |-> t, stopped_at |-> NULL, cancelled_at |-> NULL ]

(* What is left at the id of a row that DELETE removed: AUTOINCREMENT      *)
(* never gives the id out again.                                           *)
Removed == [removed |-> TRUE]

(* WHERE id = ?: the row exists *)
Exists(tbs, id) == id \in DOMAIN tbs /\ tbs[id] # Removed

(* The lookup without "AND deleted_at IS NULL": it finds deleted rows too.  *)
ExistsNotDeleted_IgnoresDeletedAt(tbs, id) == Exists(tbs, id)

(* WHERE id = ?1 AND deleted_at IS NULL *)
ExistsNotDeleted(tbs, id) == Exists(tbs, id) /\ IsNull(tbs[id].deleted_at)

(* WHERE ... stopped_at IS NULL AND cancelled_at IS NULL *)
IsOpen(s) == IsNull(s.stopped_at) /\ IsNull(s.cancelled_at)

(* ---------------------- decoding a selected row ----------------------- *)
(* rusqlite's Row::get(i) is Err(InvalidColumnIndex) when i is not below   *)
(* the number of selected columns; from_row's `?` then returns that Err.   *)
TIMEBOX_SELECT_COLUMNS ==
    << "id", "intention", "notes", "intended_duration", "status", "created_at",
       "updated_at", "started_at", "completed_at", "after_time_stopped_at",
       "deleted_at", "canceled_at", "display_order", "archived_at", "finished_at" >>

SESSION_SELECT_COLUMNS ==
    << "id", "timebox_id", "started_at", "stopped_at", "cancelled_at" >>

TimeboxFromRowLastIndex == 17
SessionFromRowLastIndex == 5

RowGetOk(columns, i) == i < Len(columns)

Timebox_from_row_ok == \A i \in 0..TimeboxFromRowLastIndex : RowGetOk(TIMEBOX_SELECT_COLUMNS, i)
Session_from_row_ok == \A i \in 0..SessionFromRowLastIndex : RowGetOk(SESSION_SELECT_COLUMNS, i)

(* The trailing "SELECT ... WHERE id = ?1" + query_row(from_row) of every  *)
(* timebox command: Err when no row matches or the row does not decode.    *)
ReturnTimebox(tbs, id) == IF Exists(tbs, id) /\ Timebox_from_row_ok THEN "Ok" ELSE "Err"
ReturnSession(ss, sid) == IF sid \in DOMAIN ss /\ Session_from_row_ok THEN "Ok" ELSE "Err"

(* ------------------------- session ledger ----------------------------- *)
(* CloseSessionsStopped that closes one open session of the timebox, the   *)
(* oldest, as an UPDATE limited to one row would.                          *)
CloseSessionsStopped_OldestOnly(ss, id, t) ==
    [ i \in DOMAIN ss |->
        IF /\ ss[i].timebox_id = id /\ IsOpen(ss[i])
           /\ \A j \in 1..(i - 1) : ~(ss[j].timebox_id = id /\ IsOpen(ss[j]))
        THEN [ss[i] EXCEPT !.stopped_at = Some(t)]
        ELSE ss[i] ]

(* UPDATE sessions SET stopped_at = ?1 WHERE timebox_id = ?2               *)
(*   AND stopped_at IS NULL AND cancelled_at IS NULL                       *)
CloseSessionsStopped(ss, id, t) ==
    [ i \in DOMAIN ss |->
        IF ss[i].timebox_id = id /\ IsOpen(ss[i])
        THEN [ss[i] EXCEPT !.stopped_at = Some(t)]
        ELSE ss[i] ]

(* CloseSessionsCancelled that closes with stopped_at, as the other        *)
(* commands do.                                                            *)
CloseSessionsCancelled_SetsStopped(ss, id, t) ==
    [ i \in DOMAIN ss |->
        IF ss[i].timebox_id = id /\ IsOpen(ss[i])
        THEN [ss[i] EXCEPT !.stopped_at = Some(t)]
        ELSE ss[i] ]

(* UPDATE sessions SET cancelled_at = ?1 WHERE timebox_id = ?2             *)
(*   AND stopped_at IS NULL AND cancelled_at IS NULL                       *)
CloseSessionsCancelled(ss, id, t) ==
    [ i \in DOMAIN ss |->
        IF ss[i].timebox_id = id /\ IsOpen(ss[i])
        THEN [ss[i] EXCEPT !.cancelled_at = Some(t)]
        ELSE ss[i] ]

(* UPDATE sessions SET stopped_at = ?1 WHERE id = ?2 AND stopped_at IS NULL *)
(*   AND cancelled_at IS NULL                                              *)
StopSessionById(ss, sid, t) ==
    [ i \in DOMAIN ss |->
        IF i = sid /\ IsOpen(ss[i])
        THEN [ss[i] EXCEPT !.stopped_at = Some(t)]
        ELSE ss[i] ]

(* CancelSessionById without "AND stopped_at IS NULL AND cancelled_at IS   *)
(* NULL": it cancels a session that is already closed.                     *)
CancelSessionById_Unguarded(ss, sid, t) ==
    [ i \in DOMAIN ss |->
        IF i = sid THEN [ss[i] EXCEPT !.cancelled_at = Some(t)] ELSE ss[i] ]

(* UPDATE sessions SET cancelled_at = ?1 WHERE id = ?2 AND stopped_at IS   *)
(*   NULL AND cancelled_at IS NULL                                         *)
CancelSessionById(ss, sid, t) ==
    [ i \in DOMAIN ss |->
        IF i = sid /\ IsOpen(ss[i])
        THEN [ss[i] EXCEPT !.cancelled_at = Some(t)]
        ELSE ss[i] ]

Reply(op, id, result) == [op |-> op, id |-> id, result |-> result]

(* ------------------- the UPDATE timeboxes SET lists ------------------- *)
(* StartRow with started_at written on every start, not only the first.    *)
StartRow_AlwaysSetsStartedAt(tb, t) ==
    [tb EXCEPT !.started_at = Some(t), !.status = InProgress,
               !.completed_at = NULL, !.updated_at = t]

(* start_timebox: started_at only on the first start; the restart branch   *)
(* clears completed_at.                                                    *)
StartRow(tb, t) ==
    IF IsNull(tb.started_at)
    THEN [tb EXCEPT !.started_at = Some(t), !.status = InProgress, !.updated_at = t]
    ELSE [tb EXCEPT !.status = InProgress, !.completed_at = NULL, !.updated_at = t]

StopRow(tb, t) ==
    [tb EXCEPT !.completed_at = Some(t), !.status = Stopped, !.updated_at = t]

(* FinishRow that writes the other completion marker as well.              *)
FinishRow_BothMarkers(tb, t) ==
    [tb EXCEPT !.finished_at = Some(t), !.after_time_stopped_at = Some(t),
               !.completed_at = Some(t), !.status = Completed, !.updated_at = t]

FinishRow(tb, t) ==
    [tb EXCEPT !.finished_at = Some(t), !.completed_at = Some(t),
               !.status = Completed, !.updated_at = t]

StopAfterTimeRow(tb, t) ==
    [tb EXCEPT !.after_time_stopped_at = Some(t), !.completed_at = Some(t),
               !.status = Completed, !.updated_at = t]

CancelRow(tb, t) ==
    [tb EXCEPT !.canceled_at = Some(t), !.status = Cancelled, !.updated_at = t]

PauseRow(tb, t) ==
    [tb EXCEPT !.status = Paused, !.updated_at = t]

(* DeleteRow that also marks the timebox stopped, as stop_timebox's SET    *)
(* list does.                                                              *)
DeleteRow_AlsoStops(tb, t) ==
    [tb EXCEPT !.deleted_at = Some(t), !.completed_at = Some(t),
               !.status = Stopped, !.updated_at = t]

DeleteRow(tb, t) ==
    [tb EXCEPT !.deleted_at = Some(t), !.updated_at = t]

ArchiveRow(tb, t) ==
    [tb EXCEPT !.archived_at = Some(t), !.updated_at = t]

UnarchiveRow(tb, t) ==
    [tb EXCEPT !.archived_at = NULL, !.updated_at = t]

ReorderRow(tb, display_order, t) ==
    [tb EXCEPT !.display_order = Some(display_order), !.updated_at = t]

(* UPDATE timeboxes SET <list> WHERE id = ?: changes the row with that id, *)
(* and no row when there is none; set[i] is row i with the SET list        *)
(* applied.                                                                *)
UpdateWhereId(tbs, id, set) ==
    [ i \in DOMAIN tbs |-> IF i = id THEN set[i] ELSE tbs[i] ]

(* ------------------------------- Init --------------------------------- *)
(* ------------------------------ state.rs ------------------------------ *)
(* AppState { db: Mutex<Connection> }: db is the set of callers holding    *)
(* the guard, pc[c] the command caller c is in and how far it has got.     *)
Callers == {"ui", "idle_trigger"}

NotCalling == [op |-> "none", id |-> 0, orders |-> <<>>, step |-> 0, t |-> 0, before |-> <<>>]

(* A lock() that returns at once, whoever holds the guard. *)
LockReturns_WithoutWaiting(holders) == TRUE

(* state.db.lock() blocks until no thread holds the guard. *)
LockReturns(holders) == holders = {}

Init ==
    /\ timeboxes = <<>>
    /\ sessions = <<>>
    /\ timebox_change_log = <<>>
    /\ now = 0
    /\ last = Reply("init", 0, "Ok")
    /\ issued = 0
    /\ db = {}
    /\ pc = [c \in Callers |-> NotCalling]

(* A caller (the UI or the idle trigger) issues one more command, which    *)
(* takes the lock on entry and gives it back when it returns.              *)
Issue ==
    /\ issued < MaxCommands
    /\ issued' = issued + 1
    /\ LockReturns(db)
    /\ UNCHANGED <<db, pc>>

(* The local clock advances between commands. *)
Tick ==
    /\ now < MaxTime
    /\ now' = now + 1
    /\ UNCHANGED <<timeboxes, sessions, timebox_change_log, last, issued, db, pc>>

(* --------------------------- commands/timebox.rs ---------------------- *)
create_timebox(intention, intended_duration, notes) ==
    /\ Issue
    /\ Len(timeboxes) < MaxTimeboxes
    /\ timeboxes' = Append(timeboxes, NewTimeboxRow(intention, intended_duration, notes, now))
    /\ last' = Reply("create", Len(timeboxes) + 1, ReturnTimebox(timeboxes', Len(timeboxes) + 1))
    /\ UNCHANGED <<sessions, timebox_change_log, now>>

start_timebox(id) ==
    /\ Issue
    /\ IF ~ExistsNotDeleted(timeboxes, id)
        THEN /\ last' = Reply("start", id, "Err")
             /\ UNCHANGED <<timeboxes, sessions, timebox_change_log, now>>
        ELSE /\ Len(sessions) < MaxSessions
             /\ timeboxes' = UpdateWhereId(timeboxes, id,
                        [i \in DOMAIN timeboxes |-> StartRow(timeboxes[i], now)])
             /\ sessions' = Append(sessions, NewSessionRow(id, now))
             /\ last' = Reply("start", id, ReturnTimebox(timeboxes', id))
             /\ UNCHANGED <<timebox_change_log, now>>

stop_timebox(id) ==
    /\ Issue
    /\ sessions' = CloseSessionsStopped(sessions, id, now)
    /\ timeboxes' = UpdateWhereId(timeboxes, id,
                        [i \in DOMAIN timeboxes |-> StopRow(timeboxes[i], now)])
    /\ last' = Reply("stop", id, ReturnTimebox(timeboxes', id))
    /\ UNCHANGED <<timebox_change_log, now>>

finish_timebox(id) ==
    /\ Issue
    /\ sessions' = CloseSessionsStopped(sessions, id, now)
    /\ timeboxes' = UpdateWhereId(timeboxes, id,
                        [i \in DOMAIN timeboxes |-> FinishRow(timeboxes[i], now)])
    /\ last' = Reply("finish", id, ReturnTimebox(timeboxes', id))
    /\ UNCHANGED <<timebox_change_log, now>>

stop_timebox_after_time(id) ==
    /\ Issue
    /\ sessions' = CloseSessionsStopped(sessions, id, now)
    /\ timeboxes' = UpdateWhereId(timeboxes, id,
                        [i \in DOMAIN timeboxes |-> StopAfterTimeRow(timeboxes[i], now)])
    /\ last' = Reply("stop_after_time", id, ReturnTimebox(timeboxes', id))
    /\ UNCHANGED <<timebox_change_log, now>>

cancel_timebox(id) ==
    /\ Issue
    /\ sessions' = CloseSessionsCancelled(sessions, id, now)
    /\ timeboxes' = UpdateWhereId(timeboxes, id,
                        [i \in DOMAIN timeboxes |-> CancelRow(timeboxes[i], now)])
    /\ last' = Reply("cancel", id, ReturnTimebox(timeboxes', id))
    /\ UNCHANGED <<timebox_change_log, now>>

pause_timebox(id) ==
    /\ Issue
    /\ sessions' = CloseSessionsStopped(sessions, id, now)
    /\ timeboxes' = UpdateWhereId(timeboxes, id,
                        [i \in DOMAIN timeboxes |-> PauseRow(timeboxes[i], now)])
    /\ last' = Reply("pause", id, ReturnTimebox(timeboxes', id))
    /\ UNCHANGED <<timebox_change_log, now>>

(* delete_timebox as a physical delete: "DELETE FROM timeboxes WHERE id =  *)
(* ?1", which by ON DELETE CASCADE removes the timebox's sessions too.     *)
(* (The row itself is dropped when it is the newest; ids are positions.)   *)
delete_timebox_PhysicalDelete(id) ==
    /\ Issue
    /\ timeboxes' = IF id = Len(timeboxes) THEN SubSeq(timeboxes, 1, id - 1) ELSE timeboxes
    /\ sessions' = LET Kept(s) == s.timebox_id # id IN SelectSeq(sessions, Kept)
    /\ last' = Reply("delete", id, "Err")
    /\ UNCHANGED <<timebox_change_log, now>>

delete_timebox(id) ==
    /\ Issue
    /\ timeboxes' = UpdateWhereId(timeboxes, id,
                        [i \in DOMAIN timeboxes |-> DeleteRow(timeboxes[i], now)])
    /\ last' = Reply("delete", id, ReturnTimebox(timeboxes', id))
    /\ UNCHANGED <<sessions, timebox_change_log, now>>

archive_timebox(id) ==
    /\ Issue
    /\ timeboxes' = UpdateWhereId(timeboxes, id,
                        [i \in DOMAIN timeboxes |-> ArchiveRow(timeboxes[i], now)])
    /\ last' = Reply("archive", id, ReturnTimebox(timeboxes', id))
    /\ UNCHANGED <<sessions, timebox_change_log, now>>

unarchive_timebox(id) ==
    /\ Issue
    /\ timeboxes' = UpdateWhereId(timeboxes, id,
                        [i \in DOMAIN timeboxes |-> UnarchiveRow(timeboxes[i], now)])
    /\ last' = Reply("unarchive", id, ReturnTimebox(timeboxes', id))
    /\ UNCHANGED <<sessions, timebox_change_log, now>>

(* --------------------------- commands/session.rs ---------------------- *)
stop_session(session_id) ==
    /\ Issue
    /\ sessions' = StopSessionById(sessions, session_id, now)
    /\ last' = Reply("stop_session", session_id, ReturnSession(sessions', session_id))
    /\ UNCHANGED <<timeboxes, timebox_change_log, now>>

cancel_session(session_id) ==
    /\ Issue
    /\ sessions' = CancelSessionById(sessions, session_id, now)
    /\ last' = Reply("cancel_session", session_id, ReturnSession(sessions', session_id))
    /\ UNCHANGED <<timeboxes, timebox_change_log, now>>
(* ------------------------- update / reorder --------------------------- *)
(* A request field is an Option: NULL when the caller leaves it out.       *)
NewIntention(current, request) ==
    IF IsNull(request.intention) THEN current.intention ELSE Val(request.intention)

NewNotes(current, request) ==
    IF ~IsNull(request.notes) THEN request.notes ELSE current.notes

NewDuration(current, request) ==
    IF IsNull(request.intended_duration)
    THEN current.intended_duration
    ELSE Val(request.intended_duration)

HasIntentionChange(current, request) == NewIntention(current, request) # current.intention
HasNotesChange(current, request) == NewNotes(current, request) # current.notes
HasDurationChange(current, request) == NewDuration(current, request) # current.intended_duration

HasChange(current, request) ==
    \/ HasIntentionChange(current, request)
    \/ HasNotesChange(current, request)
    \/ HasDurationChange(current, request)

(* INSERT INTO timebox_change_log (...) *)
ChangeLogRow(id, current, request, t) ==
    [ timebox_id |-> id,
      previous_intention_title |->
          IF HasIntentionChange(current, request) THEN Some(current.intention) ELSE NULL,
      updated_intention_title |->
          IF HasIntentionChange(current, request) THEN Some(NewIntention(current, request)) ELSE NULL,
      previous_note_content |->
          IF HasNotesChange(current, request) THEN current.notes ELSE NULL,
      updated_note_content |->
          IF HasNotesChange(current, request) THEN NewNotes(current, request) ELSE NULL,
      previous_intended_duration |->
          IF HasDurationChange(current, request) THEN Some(current.intended_duration) ELSE NULL,
      new_intended_duration |->
          IF HasDurationChange(current, request) THEN Some(NewDuration(current, request)) ELSE NULL,
      updated_at |-> t ]

(* UPDATE timeboxes SET intention, notes, intended_duration, updated_at *)
UpdateRow(tb, request, t) ==
    [tb EXCEPT !.intention = NewIntention(tb, request),
               !.notes = NewNotes(tb, request),
               !.intended_duration = NewDuration(tb, request),
               !.updated_at = t]

(* A lookup that takes any stored row as it is, decoded or not. *)
CurrentTimeboxOk_AnyStoredRow(tbs, id) == Exists(tbs, id)

(* "SELECT ... WHERE id = ?1 AND deleted_at IS NULL" + query_row(from_row)  *)
(* at the head of update_timebox: the current row, or Err when no row      *)
(* matches or the row does not decode.                                     *)
CurrentTimeboxOk(tbs, id) == ExistsNotDeleted(tbs, id) /\ Timebox_from_row_ok

(* What the caller of update_timebox gets back, with the request it made.  *)
UpdateReply(id, request, result) ==
    [op |-> "update", id |-> id, result |-> result, request |-> request]

(* update_timebox that writes the change-log row from the request first,   *)
(* before it looks the timebox up and outside any test for a change.       *)
update_timebox_LogsBeforeLookup(id, request) ==
    /\ Issue
    /\ Len(timebox_change_log) < MaxLog
    /\ timebox_change_log' =
           Append(timebox_change_log,
                  [ timebox_id |-> id,
                    previous_intention_title |-> NULL,
                    updated_intention_title |-> request.intention,
                    previous_note_content |-> NULL,
                    updated_note_content |-> request.notes,
                    previous_intended_duration |-> NULL,
                    new_intended_duration |-> request.intended_duration,
                    updated_at |-> now ])
    /\ last' = UpdateReply(id, request, "Err")
    /\ UNCHANGED <<timeboxes, sessions, now>>

update_timebox(id, request) ==
    /\ Issue
    /\ IF ~CurrentTimeboxOk(timeboxes, id)
        THEN /\ last' = UpdateReply(id, request, "Err")
             /\ UNCHANGED <<timeboxes, sessions, timebox_change_log, now>>
        ELSE /\ HasChange(timeboxes[id], request) => Len(timebox_change_log) < MaxLog
             /\ timebox_change_log' =
                    IF HasChange(timeboxes[id], request)
                    THEN Append(timebox_change_log, ChangeLogRow(id, timeboxes[id], request, now))
                    ELSE timebox_change_log
             /\ timeboxes' = UpdateWhereId(timeboxes, id,
                        [i \in DOMAIN timeboxes |-> UpdateRow(timeboxes[i], request, now)])
             /\ last' = UpdateReply(id, request, ReturnTimebox(timeboxes', id))
             /\ UNCHANGED <<sessions, now>>

(* A loop that keeps, for each timebox, the first item that names it. *)
ApplyOrders_FirstOccurrenceWins(tbs, orders, t) ==
    [ i \in DOMAIN tbs |->
        IF \E k \in DOMAIN orders : orders[k].id = i
        THEN ReorderRow(tbs[i],
                 orders[CHOOSE k \in DOMAIN orders :
                            /\ orders[k].id = i
                            /\ \A j \in DOMAIN orders : orders[j].id = i => k <= j
                       ].display_order, t)
        ELSE tbs[i] ]

(* for order in orders { UPDATE timeboxes SET display_order, updated_at } *)
RECURSIVE ApplyOrders(_, _, _)
ApplyOrders(tbs, orders, t) ==
    IF orders = <<>>
    THEN tbs
    ELSE ApplyOrders(
             UpdateWhereId(tbs, Head(orders).id,
                           [i \in DOMAIN tbs |->
                               ReorderRow(tbs[i], Head(orders).display_order, t)]),
             Tail(orders), t)

(* What the caller of reorder_timeboxes gets back, with the list it sent.  *)
ReorderReply(orders, result) ==
    [op |-> "reorder", id |-> 0, result |-> result, orders |-> orders]

reorder_timeboxes(orders) ==
    /\ Issue
    /\ timeboxes' = ApplyOrders(timeboxes, orders, now)
    /\ last' = ReorderReply(orders, "Ok")
    /\ UNCHANGED <<sessions, timebox_change_log, now>>

(* ------------------------- query / projection ------------------------- *)
(* date(created_at) = date('now', 'localtime'): the calendar day of a      *)
(* timestamp, with the day shortened to SecondsPerDay clock ticks.         *)
Date(t) == t \div SecondsPerDay

(* get_today_timeboxes: WHERE date(created_at) = date('now', 'localtime')  *)
(*   AND deleted_at IS NULL AND archived_at IS NULL                        *)
TodayWhere(tb, t) ==
    /\ Date(tb.created_at) = Date(t)
    /\ IsNull(tb.deleted_at)
    /\ IsNull(tb.archived_at)

(* get_active_timeboxes: WHERE started_at IS NOT NULL AND completed_at IS  *)
(*   NULL AND after_time_stopped_at IS NULL AND canceled_at IS NULL AND    *)
(*   deleted_at IS NULL                                                    *)
ActiveWhere(tb) ==
    /\ ~IsNull(tb.started_at)
    /\ IsNull(tb.completed_at)
    /\ IsNull(tb.after_time_stopped_at)
    /\ IsNull(tb.canceled_at)
    /\ IsNull(tb.deleted_at)

(* get_archived_timeboxes: WHERE date(created_at) = date('now',            *)
(*   'localtime') AND deleted_at IS NULL AND archived_at IS NOT NULL       *)
ArchivedWhere(tb, t) ==
    /\ Date(tb.created_at) = Date(t)
    /\ IsNull(tb.deleted_at)
    /\ ~IsNull(tb.archived_at)

(* query_map(.., Timebox::from_row) ... .filter_map(|r| r.ok()): the       *)
(* selected rows that decode; a row that does not is dropped silently.     *)
DecodedTimeboxes(ids) == {id \in ids : Timebox_from_row_ok}

(* query_map(.., Session::from_row) ... .filter_map(|r| r.ok()) over       *)
(* SELECT ... FROM sessions WHERE timebox_id = ?1                          *)
DecodedSessions(ss, id) == {i \in DOMAIN ss : ss[i].timebox_id = id /\ Session_from_row_ok}

(* julianday(COALESCE(stopped_at, datetime('now', 'localtime')))           *)
(*   - julianday(started_at), in seconds                                   *)
SessionSeconds(s, t) == (IF IsNull(s.stopped_at) THEN t ELSE Val(s.stopped_at)) - s.started_at

RECURSIVE SumSeconds(_, _, _)
SumSeconds(ss, rows, t) ==
    IF rows = {}
    THEN 0
    ELSE LET i == CHOOSE j \in rows : TRUE
         IN SessionSeconds(ss[i], t) + SumSeconds(ss, rows \ {i}, t)

(* SELECT COALESCE(SUM(...), 0) FROM sessions WHERE timebox_id = ?1 AND    *)
(*   cancelled_at IS NULL                                                  *)
actual_duration(ss, id, t) ==
    SumSeconds(ss, {i \in DOMAIN ss : ss[i].timebox_id = id /\ IsNull(ss[i].cancelled_at)}, t)

(* One element of a view's result: the timebox, its sessions, the sum.     *)
TimeboxWithSessions(tbs, ss, id, t) ==
    [ id |-> id,
      timebox |-> tbs[id],
      sessions |-> DecodedSessions(ss, id),
      actual_duration |-> actual_duration(ss, id, t) ]

(* The elements each view returns (their order is not modelled here).      *)
get_today_timeboxes(tbs, ss, t) ==
    { TimeboxWithSessions(tbs, ss, id, t) :
        id \in DecodedTimeboxes({i \in DOMAIN tbs : TodayWhere(tbs[i], t)}) }

get_active_timeboxes(tbs, ss, t) ==
    { TimeboxWithSessions(tbs, ss, id, t) :
        id \in DecodedTimeboxes({i \in DOMAIN tbs : ActiveWhere(tbs[i])}) }

get_archived_timeboxes(tbs, ss, t) ==
    { TimeboxWithSessions(tbs, ss, id, t) :
        id \in DecodedTimeboxes({i \in DOMAIN tbs : ArchivedWhere(tbs[i], t)}) }

(* ORDER BY COALESCE(display_order, 999999), created_at DESC: row a comes   *)
(* before row b.                                                           *)
NullDisplayOrderKey == 999999

DisplayOrderKey(tb) ==
    IF IsNull(tb.display_order) THEN NullDisplayOrderKey ELSE Val(tb.display_order)

TodayOrderBy(a, b) ==
    \/ DisplayOrderKey(a) < DisplayOrderKey(b)
    \/ DisplayOrderKey(a) = DisplayOrderKey(b) /\ a.created_at > b.created_at

(* ORDER BY created_at DESC *)
ActiveOrderBy(a, b) == a.created_at > b.created_at

(* ORDER BY archived_at DESC, over rows whose archived_at is not null *)
ArchivedOrderBy(a, b) == Val(a.archived_at) > Val(b.archived_at)

(* The row sequences a SELECT may yield for the selected ids: each id      *)
(* once, no row after one that the ORDER BY puts behind it (before is the  *)
(* set of pairs <<a, b>> with a before b); rows the ORDER BY does not      *)
(* tell apart come in any order.                                           *)
QueryRows(ids, before) ==
    { rows \in [1..Cardinality(ids) -> ids] :
        /\ \A i, j \in DOMAIN rows : i # j => rows[i] # rows[j]
        /\ \A i, j \in DOMAIN rows : i < j => <<rows[j], rows[i]>> \notin before }

today_rows(tbs, t) ==
    LET ids == {i \in DOMAIN tbs : TodayWhere(tbs[i], t)}
    IN QueryRows(ids, {ab \in ids \X ids : TodayOrderBy(tbs[ab[1]], tbs[ab[2]])})

active_rows(tbs) ==
    LET ids == {i \in DOMAIN tbs : ActiveWhere(tbs[i])}
    IN QueryRows(ids, {ab \in ids \X ids : ActiveOrderBy(tbs[ab[1]], tbs[ab[2]])})

archived_rows(tbs, t) ==
    LET ids == {i \in DOMAIN tbs : ArchivedWhere(tbs[i], t)}
    IN QueryRows(ids, {ab \in ids \X ids : ArchivedOrderBy(tbs[ab[1]], tbs[ab[2]])})

(* query_map(.., Timebox::from_row) ... .filter_map(|r| r.ok()).collect()  *)
(* and the loop pushing one TimeboxWithSessions per timebox: the ids of    *)
(* the returned Vec, in its order.                                         *)
Listed(rows) == SelectSeq(rows, LAMBDA id : Timebox_from_row_ok)

(* get_sessions_for_timebox: SELECT ... FROM sessions WHERE timebox_id =   *)
(*   ?1, query_map(Session::from_row), filter_map(|r| r.ok())              *)
get_sessions_for_timebox(ss, timebox_id) == DecodedSessions(ss, timebox_id)

(* get_timebox_change_log selects the nine columns TimeboxChangeLog's      *)
(* from_row reads, indices 0..8.                                           *)
CHANGE_LOG_SELECT_COLUMNS ==
    << "id", "timebox_id", "previous_intention_title", "updated_intention_title",
       "previous_note_content", "updated_note_content", "previous_intended_duration",
       "new_intended_duration", "updated_at" >>

ChangeLogFromRowLastIndex == 8

TimeboxChangeLog_from_row_ok ==
    \A i \in 0..ChangeLogFromRowLastIndex : RowGetOk(CHANGE_LOG_SELECT_COLUMNS, i)

(* get_timebox_change_log: SELECT ... FROM timebox_change_log WHERE        *)
(*   timebox_id = ?1, query_map(from_row), filter_map(|r| r.ok())          *)
get_timebox_change_log(log, timebox_id) ==
    {k \in DOMAIN log : log[k].timebox_id = timebox_id /\ TimeboxChangeLog_from_row_ok}

(* What a list command hands back for the rows its query selected and the  *)
(* ones among them that decoded: `.filter_map(|r| r.ok()).collect()` drops *)
(* every row whose from_row returned Err, and the command ends in          *)
(* Ok(result) whether or not a row was dropped.                            *)
CollectOk(selected, decoded) == [result |-> "Ok", rows |-> decoded]

(* ------------------------------ database.rs --------------------------- *)
(* The tables' own rules, met by any statement run on the connection       *)
(* ("PRAGMA foreign_keys = ON"), here by the statements of                 *)
(* database_tests.rs.                                                      *)
(* A connection that does not enforce foreign keys. *)
ForeignKeyOk_NotEnforced(tbs, timebox_id) == TRUE

(* FOREIGN KEY (timebox_id) REFERENCES timeboxes(id) *)
ForeignKeyOk(tbs, timebox_id) == Exists(tbs, timebox_id)

(* ... ON DELETE CASCADE: the rows of table that refer to timebox id go    *)
(* with it.                                                                *)
OnDeleteCascade(table, id) ==
    [ k \in DOMAIN table |->
        IF table[k] # Removed /\ table[k].timebox_id = id THEN Removed ELSE table[k] ]

(* INSERT INTO sessions (timebox_id) VALUES (?1) *)
insert_session(timebox_id) ==
    /\ Issue
    /\ IF ForeignKeyOk(timeboxes, timebox_id)
       THEN /\ Len(sessions) < MaxSessions
            /\ sessions' = Append(sessions, NewSessionRow(timebox_id, now))
            /\ last' = Reply("insert_session", timebox_id, "Ok")
       ELSE /\ last' = Reply("insert_session", timebox_id, "Err")
            /\ UNCHANGED sessions
    /\ UNCHANGED <<timeboxes, timebox_change_log, now>>

(* INSERT INTO timebox_change_log (timebox_id, previous_intention_title,   *)
(*   updated_intention_title) VALUES (?1, ?2, ?3)                          *)
insert_change_log(timebox_id, previous, updated) ==
    /\ Issue
    /\ IF ForeignKeyOk(timeboxes, timebox_id)
       THEN /\ Len(timebox_change_log) < MaxLog
            /\ timebox_change_log' =
                   Append(timebox_change_log,
                          [ timebox_id |-> timebox_id,
                            previous_intention_title |-> Some(previous),
                            updated_intention_title |-> Some(updated),
                            previous_note_content |-> NULL,
                            updated_note_content |-> NULL,
                            previous_intended_duration |-> NULL,
                            new_intended_duration |-> NULL,
                            updated_at |-> now ])
            /\ last' = Reply("insert_change_log", timebox_id, "Ok")
       ELSE /\ last' = Reply("insert_change_log", timebox_id, "Err")
            /\ UNCHANGED timebox_change_log
    /\ UNCHANGED <<timeboxes, sessions, now>>

(* DELETE FROM timeboxes WHERE id = ?1 *)
delete_from_timeboxes(id) ==
    /\ Issue
    /\ IF Exists(timeboxes, id)
       THEN /\ timeboxes' = [timeboxes EXCEPT ![id] = Removed]
            /\ sessions' = OnDeleteCascade(sessions, id)
            /\ timebox_change_log' = OnDeleteCascade(timebox_change_log, id)
       ELSE UNCHANGED <<timeboxes, sessions, timebox_change_log>>
    /\ last' = Reply("delete_from_timeboxes", id, "Ok")
    /\ UNCHANGED now

(* -------------------------- failing statements ------------------------ *)
(* Every conn.execute is its own implicit transaction: no command opens    *)
(* one around its statements.  When statement number step (in source       *)
(* order) returns an error, `?` returns it to the caller and the           *)
(* statements before it stay committed.                                    *)
(* start_timebox: 1 SELECT started_at, 2 UPDATE timeboxes, 3 INSERT INTO   *)
(* sessions.                                                               *)
StartSteps == 1..3

start_timebox_fails_at(id, step) ==
    /\ Issue
    /\ ExistsNotDeleted(timeboxes, id)
    /\ timeboxes' =
           IF step > 2
           THEN UpdateWhereId(timeboxes, id,
                    [i \in DOMAIN timeboxes |-> StartRow(timeboxes[i], now)])
           ELSE timeboxes
    /\ last' = Reply("start", id, "Err")
    /\ UNCHANGED <<sessions, timebox_change_log, now>>

(* stop_timebox: 1 UPDATE sessions, 2 UPDATE timeboxes. *)
StopSteps == 1..2

stop_timebox_fails_at(id, step) ==
    /\ Issue
    /\ sessions' = IF step > 1 THEN CloseSessionsStopped(sessions, id, now) ELSE sessions
    /\ last' = Reply("stop", id, "Err")
    /\ UNCHANGED <<timeboxes, timebox_change_log, now>>

(* reorder_timeboxes: statement number step is the UPDATE for orders[step]; *)
(* the UPDATEs of the items before it stay committed.                      *)
reorder_timeboxes_fails_at(orders, step) ==
    /\ Issue
    /\ step \in 1..Len(orders)
    /\ timeboxes' = ApplyOrders(timeboxes, SubSeq(orders, 1, step - 1), now)
    /\ last' = ReorderReply(orders, "Err")
    /\ UNCHANGED <<sessions, timebox_change_log, now>>

(* ----------------------------- inputs --------------------------------- *)
(* An id above the number of rows inserted so far names no row. *)
Ids == 1..MaxTimeboxes
SessionIds == 1..MaxSessions

Option(S) == {NULL} \cup {Some(v) : v \in S}

UpdateRequests(I, N, D) ==
    [intention : Option(I), notes : Option(N), intended_duration : Option(D)]

OrderItems(O) == [id : Ids, display_order : O]
OrderLists(O, n) == UNION {[1..k -> OrderItems(O)] : k \in 0..n}

(* ---------------------- commands, statement by statement -------------- *)
(* A command of caller c as its thread runs it: the call arrives, lock()   *)
(* returns, the statements run one after another, and the guard is dropped *)
(* when the command returns.                                               *)
Call(op, id, orders) ==
    [op |-> op, id |-> id, orders |-> orders, step |-> 0, t |-> 0, before |-> <<>>]

invoke(c, op, id, orders) ==
    /\ pc[c].op = "none"
    /\ issued < MaxCommands
    /\ issued' = issued + 1
    /\ pc' = [pc EXCEPT ![c] = Call(op, id, orders)]
    /\ UNCHANGED <<timeboxes, sessions, timebox_change_log, now, last, db>>

(* let conn = state.db.lock()...?; let now = Local::now()...; before is    *)
(* the store as the command finds it.                                      *)
lock(c) ==
    /\ pc[c].op # "none"
    /\ pc[c].step = 0
    /\ LockReturns(db)
    /\ db' = db \cup {c}
    /\ pc' = [pc EXCEPT ![c].step = 1, ![c].t = now, ![c].before = store]
    /\ UNCHANGED <<timeboxes, sessions, timebox_change_log, now, last, issued>>

(* The command returns: conn goes out of scope. *)
Return(c) ==
    /\ db' = db \ {c}
    /\ pc' = [pc EXCEPT ![c] = NotCalling]

(* stop_timebox: 1 UPDATE sessions; 2 UPDATE timeboxes, SELECT, return. *)
stop_timebox_statement(c) ==
    /\ pc[c].op = "stop"
    /\ pc[c].step > 0
    /\ IF pc[c].step = 1
       THEN /\ sessions' = CloseSessionsStopped(sessions, pc[c].id, pc[c].t)
            /\ pc' = [pc EXCEPT ![c].step = 2]
            /\ UNCHANGED <<timeboxes, last, db>>
       ELSE /\ timeboxes' = UpdateWhereId(timeboxes, pc[c].id,
                       [i \in DOMAIN timeboxes |-> StopRow(timeboxes[i], pc[c].t)])
            /\ last' = Reply("stop", pc[c].id, ReturnTimebox(timeboxes', pc[c].id))
            /\ Return(c)
            /\ UNCHANGED sessions
    /\ UNCHANGED <<timebox_change_log, now, issued>>

(* reorder_timeboxes: statement k is the UPDATE for orders[k]; Ok(()) after *)
(* the last.                                                               *)
reorder_timeboxes_statement(c) ==
    /\ pc[c].op = "reorder"
    /\ pc[c].step > 0
    /\ IF pc[c].step <= Len(pc[c].orders)
       THEN /\ timeboxes' = ApplyOrders(timeboxes, <<pc[c].orders[pc[c].step]>>, pc[c].t)
            /\ pc' = [pc EXCEPT ![c].step = @ + 1]
            /\ UNCHANGED <<last, db>>
       ELSE /\ last' = ReorderReply(pc[c].orders, "Ok")
            /\ Return(c)
            /\ UNCHANGED timeboxes
    /\ UNCHANGED <<sessions, timebox_change_log, now, issued>>

(* get_active_timeboxes: the SELECT over timeboxes picks the rows of        *)
(* ActiveWhere; the reply is what is left of them after decoding.          *)
get_active_timeboxes_statement(c) ==
    /\ pc[c].op = "get_active"
    /\ pc[c].step > 0
    /\ last' = [ op |-> "get_active", id |-> 0, result |-> "Ok",
                 selected |-> {i \in DOMAIN timeboxes : ActiveWhere(timeboxes[i])},
                 view |-> get_active_timeboxes(timeboxes, sessions, now) ]
    /\ Return(c)
    /\ UNCHANGED <<timeboxes, sessions, timebox_change_log, now, issued>>

(* The list the today view sends after a drag: every stored timebox with   *)
(* its new position.                                                       *)
FullReorders(tbs) ==
    { [i \in DOMAIN tbs |-> [id |-> i, display_order |-> position[i]]] :
        position \in Permutations(DOMAIN tbs) }

(* --------------------------- specification ---------------------------- *)
Next ==
    \/ Tick
    \/ create_timebox("a", 1, NULL)
    \/ \E id \in Ids : start_timebox(id)
    \/ \E id \in Ids : stop_timebox(id)
    \/ \E id \in Ids : finish_timebox(id)
    \/ \E id \in Ids : stop_timebox_after_time(id)
    \/ \E id \in Ids : cancel_timebox(id)
    \/ \E id \in Ids : pause_timebox(id)
    \/ \E id \in Ids : delete_timebox(id)
    \/ \E id \in Ids : archive_timebox(id)
    \/ \E id \in Ids : unarchive_timebox(id)
    \/ \E id \in Ids, request \in UpdateRequests({"a", "b"}, {}, {}) : update_timebox(id, request)
    \/ \E orders \in OrderLists({1}, 1) : reorder_timeboxes(orders)
    \/ \E sid \in SessionIds : stop_session(sid)
    \/ \E sid \in SessionIds : cancel_session(sid)

Spec == Init /\ [][Next]_vars

(* The same store driven through create_timebox with every shape of        *)
(* CreateTimeboxRequest: empty and non-empty intention, zero and positive  *)
(* intended_duration, notes present and absent.                            *)
Intentions == {"", "a"}
Durations == {0, 1}
NotesValues == Option({"n"})

NextCreate ==
    \/ Tick
    \/ \E intention \in Intentions, intended_duration \in Durations, notes \in NotesValues :
           create_timebox(intention, intended_duration, notes)
    \/ \E id \in Ids : start_timebox(id)
    \/ \E id \in Ids : stop_timebox(id)

SpecCreate == Init /\ [][NextCreate]_vars

(* The store driven by reorder_timeboxes with lists of up to MaxOrders     *)
(* items, the same id more than once included.                             *)
MaxOrders == 2
DisplayOrders == {1, 2}

NextReorder ==
    \/ create_timebox("a", 1, NULL)
    \/ \E orders \in OrderLists(DisplayOrders, MaxOrders) : reorder_timeboxes(orders)

SpecReorder == Init /\ [][NextReorder]_vars

(* The store driven by the commands that decide what the today view shows  *)
(* and in which order, with a display_order below and one above the value  *)
(* the today query gives a null display_order.                             *)
ViewDisplayOrders == {1, NullDisplayOrderKey + 1}

NextView ==
    \/ Tick
    \/ create_timebox("a", 1, NULL)
    \/ \E id \in Ids : delete_timebox(id)
    \/ \E id \in Ids : archive_timebox(id)
    \/ \E id \in Ids : unarchive_timebox(id)
    \/ \E orders \in OrderLists(ViewDisplayOrders, 1) : reorder_timeboxes(orders)

SpecView == Init /\ [][NextView]_vars

(* The store driven by statements run on the connection directly, next to  *)
(* the two commands that insert rows.                                      *)
NextSchema ==
    \/ Tick
    \/ create_timebox("a", 1, NULL)
    \/ \E id \in Ids : start_timebox(id)
    \/ \E id \in Ids : insert_session(id)
    \/ \E id \in Ids : insert_change_log(id, "a", "b")
    \/ \E id \in Ids : delete_from_timeboxes(id)

SpecSchema == Init /\ [][NextSchema]_vars

(* The status column is TEXT NOT NULL with no CHECK, so the database file  *)
(* the application opens may hold any string there: the six the commands   *)
(* write, and others.                                                      *)
PersistedStatusStrings ==
    {as_str(v) : v \in TimeboxStatus} \cup {"", "done", "NotStarted"}

(* The application opens a database file that already holds one timebox.   *)
InitStatus ==
    /\ \E s \in PersistedStatusStrings :
          timeboxes = <<[NewTimeboxRow("a", 1, NULL, 0) EXCEPT !.status = s]>>
    /\ sessions = <<>>
    /\ timebox_change_log = <<>>
    /\ now = 0
    /\ last = Reply("init", 0, "Ok")
    /\ issued = 0
    /\ db = {}
    /\ pc = [c \in Callers |-> NotCalling]

(* The commands that read a timebox back after writing it, run on such a   *)
(* file.                                                                   *)
NextStatus ==
    \/ Tick
    \/ \E id \in Ids : start_timebox(id)
    \/ \E id \in Ids : pause_timebox(id)
    \/ \E id \in Ids : archive_timebox(id)
    \/ \E id \in Ids : unarchive_timebox(id)

SpecStatus == InitStatus /\ [][NextStatus]_vars

(* The store driven by commands any of whose statements may fail. *)
NextFault ==
    \/ Tick
    \/ create_timebox("a", 1, NULL)
    \/ \E id \in Ids : start_timebox(id)
    \/ \E id \in Ids : stop_timebox(id)
    \/ \E id \in Ids, step \in StartSteps : start_timebox_fails_at(id, step)
    \/ \E id \in Ids, step \in StopSteps : stop_timebox_fails_at(id, step)
    \/ \E orders \in OrderLists(DisplayOrders, MaxOrders) : reorder_timeboxes(orders)
    \/ \E orders \in OrderLists(DisplayOrders, MaxOrders), step \in 1..MaxOrders :
           reorder_timeboxes_fails_at(orders, step)

SpecFault == Init /\ [][NextFault]_vars

(* The store driven by two callers whose commands run statement by         *)
(* statement, next to commands that run in one step.                       *)
NextConcurrent ==
    \/ Tick
    \/ create_timebox("a", 1, NULL)
    \/ \E id \in Ids : start_timebox(id)
    \/ \E c \in Callers, id \in Ids : invoke(c, "stop", id, <<>>)
    \/ \E c \in Callers, orders \in FullReorders(timeboxes) : invoke(c, "reorder", 0, orders)
    \/ \E c \in Callers : invoke(c, "get_active", 0, <<>>)
    \/ \E c \in Callers : lock(c)
    \/ \E c \in Callers : stop_timebox_statement(c)
    \/ \E c \in Callers : reorder_timeboxes_statement(c)
    \/ \E c \in Callers : get_active_timeboxes_statement(c)

SpecConcurrent == Init /\ [][NextConcurrent]_vars
(* ============================== claims ================================ *)
OpenSessionsOf(ss, id) == {i \in DOMAIN ss : ss[i].timebox_id = id /\ IsOpen(ss[i])}
SessionsOf(ss, id) == {i \in DOMAIN ss : ss[i].timebox_id = id}

(* C1: after any sequence of commands every timebox has at most one open   *)
(* session; in particular start(id) on a timebox that already has an open  *)
(* session does not leave two open sessions.                               *)
C1_AtMostOneOpenSession ==
    \A id \in DOMAIN timeboxes : Cardinality(OpenSessionsOf(sessions, id)) <= 1

(* C2: for every session, stopped_at and cancelled_at are never both       *)
(* non-null, and once either is set no later command changes or clears it. *)
C2_SessionClosedOnce ==
    [][ /\ \A i \in DOMAIN sessions' :
              IsNull(sessions'[i].stopped_at) \/ IsNull(sessions'[i].cancelled_at)
        /\ \A i \in DOMAIN sessions :
              /\ i \in DOMAIN sessions'
              /\ ~IsNull(sessions[i].stopped_at) =>
                     sessions'[i].stopped_at = sessions[i].stopped_at
              /\ ~IsNull(sessions[i].cancelled_at) =>
                     sessions'[i].cancelled_at = sessions[i].cancelled_at ]_vars

(* C2 witness: cancel(id) ran at a later time than the command that        *)
(* stopped a session of id, and that session is still only stopped.        *)
C2_Witness ==
    \E i \in DOMAIN sessions :
        /\ last.op = "cancel"
        /\ last.id = sessions[i].timebox_id
        /\ timeboxes[last.id].canceled_at = Some(now)
        /\ ~IsNull(sessions[i].stopped_at)
        /\ Val(sessions[i].stopped_at) < now
        /\ IsNull(sessions[i].cancelled_at)

(* What the specification says actual_duration is: over the sessions of    *)
(* id that are not cancelled, closed ones count stopped_at - started_at    *)
(* and open ones count t - started_at.                                     *)
RECURSIVE SumOver(_, _)
SumOver(f, S) ==
    IF S = {} THEN 0
    ELSE LET x == CHOOSE y \in S : TRUE IN f[x] + SumOver(f, S \ {x})

ExpectedDuration(ss, id, t) ==
    LET closed == {i \in SessionsOf(ss, id) :
                      IsNull(ss[i].cancelled_at) /\ ~IsNull(ss[i].stopped_at)}
        open == {i \in SessionsOf(ss, id) :
                      IsNull(ss[i].cancelled_at) /\ IsNull(ss[i].stopped_at)}
    IN SumOver([i \in closed |-> Val(ss[i].stopped_at) - ss[i].started_at], closed)
       + SumOver([i \in open |-> t - ss[i].started_at], open)

ViewResults(tbs, ss, t) ==
    get_today_timeboxes(tbs, ss, t) \cup get_active_timeboxes(tbs, ss, t)
        \cup get_archived_timeboxes(tbs, ss, t)

(* C3: at any read at clock time now, a view returns for each timebox it   *)
(* selects an actual_duration equal to the sum, over the timebox's         *)
(* sessions with cancelled_at null, of (stopped_at, else now) minus        *)
(* started_at; cancelled sessions add nothing, no sessions gives 0.        *)
C3_ActualDurationReturned ==
    \A id \in DOMAIN timeboxes :
        (TodayWhere(timeboxes[id], now) \/ ActiveWhere(timeboxes[id])
             \/ ArchivedWhere(timeboxes[id], now)) =>
            \E e \in ViewResults(timeboxes, sessions, now) :
                /\ e.id = id
                /\ e.actual_duration = ExpectedDuration(sessions, id, now)

(* C4: a start(id) that finds its non-deleted timebox leaves status        *)
(* in_progress, completed_at null, started_at = now if it was null and     *)
(* unchanged otherwise, and appends one open session started now for id.   *)
C4_StartEffects ==
    [][ \A id \in Ids :
          (ExistsNotDeleted(timeboxes, id) /\ start_timebox(id)) =>
              /\ timeboxes'[id].status = InProgress
              /\ IsNull(timeboxes'[id].completed_at)
              /\ timeboxes'[id].started_at =
                     (IF IsNull(timeboxes[id].started_at)
                      THEN Some(now) ELSE timeboxes[id].started_at)
              /\ Len(sessions') = Len(sessions) + 1
              /\ sessions'[Len(sessions')].timebox_id = id
              /\ sessions'[Len(sessions')].started_at = now
              /\ IsOpen(sessions'[Len(sessions')]) ]_vars

(* The state create, start, stop leaves a timebox in: started once,        *)
(* stopped, one session, closed by the stop.                               *)
AfterCreateStartStop(tbs, ss, id) ==
    /\ ExistsNotDeleted(tbs, id)
    /\ tbs[id].status = Stopped
    /\ ~IsNull(tbs[id].started_at)
    /\ ~IsNull(tbs[id].completed_at)
    /\ IsNull(tbs[id].after_time_stopped_at)
    /\ IsNull(tbs[id].canceled_at)
    /\ IsNull(tbs[id].finished_at)
    /\ \E i \in DOMAIN ss :
          /\ SessionsOf(ss, id) = {i}
          /\ ss[i].started_at = Val(tbs[id].started_at)
          /\ ss[i].stopped_at = tbs[id].completed_at
          /\ IsNull(ss[i].cancelled_at)

(* C5: create, start, stop, start leaves started_at at the time of the     *)
(* first start and completed_at null, adds a second, open session while    *)
(* the first stays closed, and the active view returns the timebox again.  *)
C5_RestartAfterStop ==
    [][ \A id \in Ids :
          (AfterCreateStartStop(timeboxes, sessions, id) /\ start_timebox(id)) =>
              /\ timeboxes'[id].started_at = timeboxes[id].started_at
              /\ IsNull(timeboxes'[id].completed_at)
              /\ Cardinality(SessionsOf(sessions', id)) = 2
              /\ \A i \in SessionsOf(sessions, id) : sessions'[i] = sessions[i]
              /\ Cardinality(OpenSessionsOf(sessions', id)) = 1
              /\ \E e \in get_active_timeboxes(timeboxes', sessions', now') : e.id = id ]_vars

(* C6: once a timebox's started_at is non-null, no command changes or      *)
(* clears it.                                                              *)
C6_StartedAtKept ==
    [][ \A id \in DOMAIN timeboxes :
          ~IsNull(timeboxes[id].started_at) =>
              /\ id \in DOMAIN timeboxes'
              /\ timeboxes'[id].started_at = timeboxes[id].started_at ]_vars

(* C6 witness: a timebox started earlier and since stopped was started     *)
(* again at a later time, and still carries the time of its first start.   *)
C6_Witness ==
    /\ last.op = "start"
    /\ Exists(timeboxes, last.id)
    /\ timeboxes[last.id].status = InProgress
    /\ timeboxes[last.id].updated_at = now
    /\ ~IsNull(timeboxes[last.id].started_at)
    /\ Val(timeboxes[last.id].started_at) < now
    /\ \E i \in SessionsOf(sessions, last.id) : ~IsNull(sessions[i].stopped_at)
    /\ \E i \in SessionsOf(sessions, last.id) : IsOpen(sessions[i]) /\ sessions[i].started_at = now
ExactlyOneMarker(tb) == IsNull(tb.finished_at) # IsNull(tb.after_time_stopped_at)

C8_CancelEffects ==
    [][ \A id \in DOMAIN timeboxes :
          cancel_timebox(id) =>
              /\ DOMAIN sessions' = DOMAIN sessions
              /\ \A i \in DOMAIN sessions :
                    IF sessions[i].timebox_id = id /\ IsOpen(sessions[i])
                    THEN /\ sessions'[i].cancelled_at = Some(now)
                         /\ IsNull(sessions'[i].stopped_at)
                         /\ sessions'[i].started_at = sessions[i].started_at
                         /\ sessions'[i].timebox_id = id
                    ELSE sessions'[i] = sessions[i]
              /\ timeboxes'[id].canceled_at = Some(now)
              /\ timeboxes'[id].status = Cancelled
              /\ timeboxes'[id].completed_at = timeboxes[id].completed_at
              /\ timeboxes'[id].finished_at = timeboxes[id].finished_at
              /\ timeboxes'[id].after_time_stopped_at = timeboxes[id].after_time_stopped_at ]_vars

(* C8 witness: cancel(id) ran, later than the start, on a timebox with an  *)
(* open session and a completed_at left by an earlier stop: the session is *)
(* cancelled, not stopped, and completed_at is as the stop left it.        *)
C8_Witness ==
    /\ last.op = "cancel"
    /\ Exists(timeboxes, last.id)
    /\ timeboxes[last.id].canceled_at = Some(now)
    /\ timeboxes[last.id].status = Cancelled
    /\ ~IsNull(timeboxes[last.id].completed_at)
    /\ Val(timeboxes[last.id].completed_at) < now
    /\ \E i \in SessionsOf(sessions, last.id) :
          /\ sessions[i].cancelled_at = Some(now)
          /\ IsNull(sessions[i].stopped_at)

(* C9: pause(id) on an in-progress timebox sets stopped_at = now on its    *)
(* open session, sets status = paused, leaves started_at, completed_at and *)
(* every other lifecycle timestamp unchanged, and a timebox the active     *)
(* view selected is still returned by the active view; a following         *)
(* start(id) returns it to in_progress with a new open session.            *)
C9_PauseAndResume ==
    [][ \A id \in DOMAIN timeboxes :
          /\ (timeboxes[id].status = InProgress /\ pause_timebox(id)) =>
                 /\ \A i \in OpenSessionsOf(sessions, id) :
                       /\ sessions'[i].stopped_at = Some(now)
                       /\ IsNull(sessions'[i].cancelled_at)
                 /\ timeboxes'[id].status = Paused
                 /\ timeboxes'[id].started_at = timeboxes[id].started_at
                 /\ timeboxes'[id].completed_at = timeboxes[id].completed_at
                 /\ timeboxes'[id].after_time_stopped_at = timeboxes[id].after_time_stopped_at
                 /\ timeboxes'[id].finished_at = timeboxes[id].finished_at
                 /\ timeboxes'[id].canceled_at = timeboxes[id].canceled_at
                 /\ timeboxes'[id].deleted_at = timeboxes[id].deleted_at
                 /\ timeboxes'[id].archived_at = timeboxes[id].archived_at
                 /\ ActiveWhere(timeboxes[id]) =>
                        \E e \in get_active_timeboxes(timeboxes', sessions', now') : e.id = id
          /\ (timeboxes[id].status = Paused /\ ExistsNotDeleted(timeboxes, id)
                 /\ start_timebox(id)) =>
                 /\ timeboxes'[id].status = InProgress
                 /\ sessions' = Append(sessions, NewSessionRow(id, now)) ]_vars

(* pause(id) finds no active timebox: no row, a soft-deleted row, a row    *)
(* never started, or one already stopped, completed or cancelled.          *)
NoActiveTimebox(tbs, id) ==
    \/ ~Exists(tbs, id)
    \/ ~IsNull(tbs[id].deleted_at)
    \/ IsNull(tbs[id].started_at)
    \/ tbs[id].status \in {Stopped, Completed, Cancelled}

(* C10: pause(id) when no active timebox is found for id returns an error  *)
(* and changes no timebox and no session.                                  *)
C10_PauseWithoutActiveTimebox ==
    [][ \A id \in Ids :
          (NoActiveTimebox(timeboxes, id) /\ pause_timebox(id)) =>
              /\ last'.result = "Err"
              /\ timeboxes' = timeboxes
              /\ sessions' = sessions ]_vars

(* The edges of the status state machine the specification permits.        *)
PermittedEdges ==
    { <<NotStarted, InProgress>>,
      <<InProgress, Paused>>, <<InProgress, Completed>>,
      <<InProgress, Cancelled>>, <<InProgress, Stopped>>,
      <<Paused, InProgress>>, <<Paused, Completed>>,
      <<Paused, Cancelled>>, <<Paused, Stopped>>,
      <<Completed, InProgress>>, <<Stopped, InProgress>> }

(* C11: the status of a timebox changes only along the permitted edges; in *)
(* particular no command moves it from not_started directly to paused,     *)
(* stopped, completed or cancelled.                                        *)
C11_PermittedStatusEdges ==
    [][ \A id \in DOMAIN timeboxes :
          timeboxes'[id].status # timeboxes[id].status =>
              <<timeboxes[id].status, timeboxes'[id].status>> \in PermittedEdges ]_vars

(* C12: a timebox whose status is cancelled is never moved back to         *)
(* in_progress and never gets a new open session.                          *)
C12_CancelledIsTerminal ==
    [][ \A id \in DOMAIN timeboxes :
          timeboxes[id].status = Cancelled =>
              /\ timeboxes'[id].status # InProgress
              /\ OpenSessionsOf(sessions', id) \subseteq OpenSessionsOf(sessions, id) ]_vars

(* C13: create with a non-empty intention and a positive intended_duration *)
(* adds exactly one timebox, under an id no timebox had, with status       *)
(* not_started, created_at and updated_at set, every lifecycle timestamp   *)
(* null, no sessions and no change-log entries; every other timebox, every *)
(* session and the change log are unchanged.                               *)
C13_CreateEffects ==
    [][ \A intention \in Intentions, intended_duration \in Durations, notes \in NotesValues :
          (intention # "" /\ intended_duration > 0 /\ last'.op = "create"
              /\ create_timebox(intention, intended_duration, notes)) =>
              LET id == Len(timeboxes') IN
              /\ Len(timeboxes') = Len(timeboxes) + 1
              /\ ~Exists(timeboxes, id)
              /\ \A i \in DOMAIN timeboxes : timeboxes'[i] = timeboxes[i]
              /\ timeboxes'[id].intention = intention
              /\ timeboxes'[id].intended_duration = intended_duration
              /\ timeboxes'[id].notes = notes
              /\ timeboxes'[id].status = NotStarted
              /\ timeboxes'[id].created_at = now
              /\ timeboxes'[id].updated_at = now
              /\ IsNull(timeboxes'[id].started_at)
              /\ IsNull(timeboxes'[id].completed_at)
              /\ IsNull(timeboxes'[id].after_time_stopped_at)
              /\ IsNull(timeboxes'[id].canceled_at)
              /\ IsNull(timeboxes'[id].finished_at)
              /\ IsNull(timeboxes'[id].archived_at)
              /\ IsNull(timeboxes'[id].deleted_at)
              /\ sessions' = sessions
              /\ SessionsOf(sessions', id) = {}
              /\ timebox_change_log' = timebox_change_log
              /\ \A k \in DOMAIN timebox_change_log' : timebox_change_log'[k].timebox_id # id ]_vars

(* C13 witness: a second timebox was created, with notes, at a later time  *)
(* than the first, which is in progress with its session.                  *)
C13_Witness ==
    /\ last.op = "create"
    /\ last.id = 2
    /\ Len(timeboxes) = 2
    /\ timeboxes[2].status = NotStarted
    /\ timeboxes[2].created_at = now
    /\ timeboxes[2].notes = Some("n")
    /\ timeboxes[2].intention # ""
    /\ timeboxes[2].intended_duration > 0
    /\ timeboxes[1].status = InProgress
    /\ timeboxes[1].created_at < now
    /\ SessionsOf(sessions, 1) # {}
    /\ SessionsOf(sessions, 2) = {}

(* C14: create with an empty intention or with intended_duration <= 0      *)
(* fails and adds no timebox.                                              *)
C14_CreateValidation ==
    [][ \A intention \in Intentions, intended_duration \in Durations, notes \in NotesValues :
          ((intention = "" \/ intended_duration <= 0)
              /\ create_timebox(intention, intended_duration, notes)) =>
              /\ last'.result = "Err"
              /\ timeboxes' = timeboxes ]_vars

(* The id names no timebox, or names one that is soft-deleted.             *)
UnknownOrDeleted(tbs, id) ==
    id \notin DOMAIN tbs \/ ~IsNull(tbs[id].deleted_at)

(* C15: start(id) with an id that does not exist or whose timebox is       *)
(* soft-deleted returns an error, creates no session and changes no        *)
(* timebox.                                                                *)
C15_StartNotFound ==
    [][ \A id \in Ids :
          (UnknownOrDeleted(timeboxes, id) /\ start_timebox(id)) =>
              /\ last'.result = "Err"
              /\ sessions' = sessions
              /\ timeboxes' = timeboxes ]_vars

(* C15 witness: the last command was a start of a soft-deleted timebox,    *)
(* issued after the clock moved on: the timebox still has the one session  *)
(* of its first start and was not touched at the current time.             *)
C15_Witness ==
    /\ last.op = "start"
    /\ last.result = "Err"
    /\ Exists(timeboxes, last.id)
    /\ ~IsNull(timeboxes[last.id].deleted_at)
    /\ Val(timeboxes[last.id].deleted_at) < now
    /\ timeboxes[last.id].updated_at < now
    /\ Cardinality(SessionsOf(sessions, last.id)) = 1

(* C16: pause, stop, finish, stop_after_time, cancel, archive, unarchive,  *)
(* delete and update, given an id that is unknown or names a soft-deleted  *)
(* timebox, return an error and leave every timebox, session and           *)
(* change-log entry unchanged.                                             *)
C16_CommandsNotFound ==
    [][ \A id \in Ids :
          (/\ UnknownOrDeleted(timeboxes, id)
           /\ \/ pause_timebox(id)
              \/ stop_timebox(id)
              \/ finish_timebox(id)
              \/ stop_timebox_after_time(id)
              \/ cancel_timebox(id)
              \/ archive_timebox(id)
              \/ unarchive_timebox(id)
              \/ delete_timebox(id)
              \/ \E request \in UpdateRequests({"a", "b"}, {}, {}) : update_timebox(id, request)) =>
              /\ last'.result = "Err"
              /\ timeboxes' = timeboxes
              /\ sessions' = sessions
              /\ timebox_change_log' = timebox_change_log ]_vars

(* Every row of tbs2 is the row of tbs1 with at most the named columns     *)
(* changed, and no row is added or removed.                                *)
OnlyColumnsChanged(tbs1, tbs2, columns) ==
    /\ DOMAIN tbs2 = DOMAIN tbs1
    /\ \A i \in DOMAIN tbs1 :
          \A c \in (DOMAIN tbs1[i]) \ columns : tbs2[i][c] = tbs1[i][c]

(* C17: delete, archive, unarchive, update and reorder never change a      *)
(* timebox's status, its started_at, completed_at, finished_at,            *)
(* after_time_stopped_at or canceled_at, or any session: delete changes    *)
(* only deleted_at, archive and unarchive only archived_at, update only    *)
(* intention, notes and intended_duration, reorder only display_order,     *)
(* each besides updated_at.                                                *)
C17_FrameOfBookkeepingCommands ==
    [][ /\ \A id \in Ids :
             /\ (last'.op = "delete" /\ delete_timebox(id)) =>
                    /\ OnlyColumnsChanged(timeboxes, timeboxes', {"deleted_at", "updated_at"})
                    /\ Exists(timeboxes, id) => timeboxes'[id].deleted_at = Some(now)
                    /\ sessions' = sessions
             /\ (last'.op = "archive" /\ archive_timebox(id)) =>
                    /\ OnlyColumnsChanged(timeboxes, timeboxes', {"archived_at", "updated_at"})
                    /\ Exists(timeboxes, id) => timeboxes'[id].archived_at = Some(now)
                    /\ sessions' = sessions
             /\ (last'.op = "unarchive" /\ unarchive_timebox(id)) =>
                    /\ OnlyColumnsChanged(timeboxes, timeboxes', {"archived_at", "updated_at"})
                    /\ Exists(timeboxes, id) => IsNull(timeboxes'[id].archived_at)
                    /\ sessions' = sessions
             /\ (last'.op = "update" /\ update_timebox(id, last'.request)) =>
                    /\ OnlyColumnsChanged(timeboxes, timeboxes',
                           {"intention", "notes", "intended_duration", "updated_at"})
                    /\ sessions' = sessions
        /\ (last'.op = "reorder"
               /\ \E orders \in OrderLists({1}, 1) : reorder_timeboxes(orders)) =>
               /\ OnlyColumnsChanged(timeboxes, timeboxes', {"display_order", "updated_at"})
               /\ sessions' = sessions ]_vars

(* C17 witness: delete ran, at a later time than the start, on a timebox   *)
(* that is in progress: it is deleted, still in progress, and its session  *)
(* is still open.                                                          *)
C17_Witness ==
    /\ last.op = "delete"
    /\ Exists(timeboxes, last.id)
    /\ timeboxes[last.id].deleted_at = Some(now)
    /\ timeboxes[last.id].status = InProgress
    /\ ~IsNull(timeboxes[last.id].started_at)
    /\ Val(timeboxes[last.id].started_at) < now
    /\ IsNull(timeboxes[last.id].completed_at)
    /\ \E i \in SessionsOf(sessions, last.id) : IsOpen(sessions[i])

(* C18: in every reachable state no result of the today, active or         *)
(* archived view contains a timebox whose deleted_at is set, while         *)
(* get_sessions_for_timebox and get_timebox_change_log for that timebox    *)
(* still return all of its sessions and change-log entries.                *)
C18_SoftDeleteViews ==
    \A id \in DOMAIN timeboxes :
        ~IsNull(timeboxes[id].deleted_at) =>
            /\ \A e \in ViewResults(timeboxes, sessions, now) : e.id # id
            /\ get_sessions_for_timebox(sessions, id) = SessionsOf(sessions, id)
            /\ get_timebox_change_log(timebox_change_log, id) =
                   {k \in DOMAIN timebox_change_log : timebox_change_log[k].timebox_id = id}

(* C19: no command removes a timebox, session or change-log row, and no    *)
(* command modifies an existing change-log entry.  (With update_timebox    *)
(* failing at its first decode, no change-log entry is ever written, so    *)
(* the change-log part holds of an empty log.)                             *)
C19_RowsNeverRemoved ==
    [][ /\ DOMAIN timeboxes \subseteq DOMAIN timeboxes'
        /\ DOMAIN sessions \subseteq DOMAIN sessions'
        /\ \A i \in DOMAIN sessions : sessions'[i].timebox_id = sessions[i].timebox_id
        /\ DOMAIN timebox_change_log \subseteq DOMAIN timebox_change_log'
        /\ \A k \in DOMAIN timebox_change_log :
              timebox_change_log'[k] = timebox_change_log[k] ]_vars

(* C19 witness: with two timeboxes stored, delete ran on the one that has  *)
(* a session: both rows and the session are still there.                   *)
C19_Witness ==
    /\ last.op = "delete"
    /\ Len(timeboxes) = 2
    /\ Exists(timeboxes, last.id)
    /\ timeboxes[last.id].deleted_at = Some(now)
    /\ SessionsOf(sessions, last.id) # {}
    /\ \E other \in DOMAIN timeboxes : other # last.id /\ IsNull(timeboxes[other].deleted_at)

(* Every value the request supplies equals the timebox's current value     *)
(* (a request that supplies nothing included).                             *)
SuppliesNoNewValue(tb, request) ==
    /\ IsNull(request.intention) \/ Val(request.intention) = tb.intention
    /\ IsNull(request.notes) \/ request.notes = tb.notes
    /\ IsNull(request.intended_duration) \/ Val(request.intended_duration) = tb.intended_duration

PairsHold(entry, old, new) ==
    /\ IF old.intention # new.intention
       THEN /\ entry.previous_intention_title = Some(old.intention)
            /\ entry.updated_intention_title = Some(new.intention)
       ELSE /\ IsNull(entry.previous_intention_title)
            /\ IsNull(entry.updated_intention_title)
    /\ IF old.notes # new.notes
       THEN /\ entry.previous_note_content = old.notes
            /\ entry.updated_note_content = new.notes
       ELSE /\ IsNull(entry.previous_note_content)
            /\ IsNull(entry.updated_note_content)
    /\ IF old.intended_duration # new.intended_duration
       THEN /\ entry.previous_intended_duration = Some(old.intended_duration)
            /\ entry.new_intended_duration = Some(new.intended_duration)
       ELSE /\ IsNull(entry.previous_intended_duration)
            /\ IsNull(entry.new_intended_duration)

(* C22: every update of a timebox that supplies a new value for at least   *)
(* one of intention, notes and intended_duration writes exactly one        *)
(* change-log entry, for that timebox, whose pairs hold the old and new    *)
(* value of each changed field and null twice for each unchanged field.    *)
C22_ChangingUpdateLogsOneEntry ==
    [][ \A id \in DOMAIN timeboxes :
          (/\ last'.op = "update"
           /\ ExistsNotDeleted(timeboxes, id)
           /\ ~SuppliesNoNewValue(timeboxes[id], last'.request)
           /\ update_timebox(id, last'.request)) =>
              /\ Len(timebox_change_log') = Len(timebox_change_log) + 1
              /\ timebox_change_log'[Len(timebox_change_log')].timebox_id = id
              /\ PairsHold(timebox_change_log'[Len(timebox_change_log')],
                           timeboxes[id], timeboxes'[id]) ]_vars


(* C23: no command applies in part: when a statement of start or stop      *)
(* fails part-way (after the timebox update but before the session insert  *)
(* in start, after the session close but before the timebox update in      *)
(* stop), the command returns an error and the store is as it was before   *)
(* the command.                                                            *)
C23_FailedCommandLeavesStore ==
    [][ \A id \in Ids :
          /\ (\E step \in StartSteps : start_timebox_fails_at(id, step)) =>
                 (last'.result = "Err" /\ store' = store)
          /\ (\E step \in StopSteps : stop_timebox_fails_at(id, step)) =>
                 (last'.result = "Err" /\ store' = store) ]_vars


(* The positions of a reorder list that name timebox id. *)
OccurrencesOf(orders, id) == {k \in DOMAIN orders : orders[k].id = id}

(* The display_order the last item for id asks for. *)
LastRequested(orders, id) ==
    orders[CHOOSE k \in OccurrencesOf(orders, id) :
               \A j \in OccurrencesOf(orders, id) : j <= k].display_order

(* C24: reorder(list) is all-or-nothing: when applying an item fails, the  *)
(* command returns an error and no timebox's display_order has changed;    *)
(* when it succeeds, every listed timebox has its requested display_order. *)
C24_ReorderAllOrNothing ==
    [][ last'.op = "reorder" =>
          /\ (\E step \in DOMAIN last'.orders :
                  reorder_timeboxes_fails_at(last'.orders, step)) =>
                 /\ last'.result = "Err"
                 /\ \A id \in DOMAIN timeboxes :
                        timeboxes'[id].display_order = timeboxes[id].display_order
          /\ (last'.result = "Ok" /\ reorder_timeboxes(last'.orders)) =>
                 \A id \in DOMAIN timeboxes :
                     OccurrencesOf(last'.orders, id) # {} =>
                         timeboxes'[id].display_order =
                             Some(LastRequested(last'.orders, id)) ]_vars

(* C25: reorder with a list that names the same timebox more than once     *)
(* leaves that timebox with the display_order of the last item that names  *)
(* it.                                                                     *)
C25_LastOccurrenceWins ==
    [][ (/\ last'.op = "reorder"
         /\ last'.result = "Ok"
         /\ reorder_timeboxes(last'.orders)) =>
            \A id \in DOMAIN timeboxes :
                Cardinality(OccurrencesOf(last'.orders, id)) > 1 =>
                    timeboxes'[id].display_order =
                        Some(LastRequested(last'.orders, id)) ]_vars

(* C25 witness: the last command was a successful reorder whose list named *)
(* a stored timebox twice, first with display_order 2 and then with 1, and *)
(* the timebox has display_order 1.                                        *)
C25_Witness ==
    /\ last.op = "reorder"
    /\ last.result = "Ok"
    /\ \E id \in DOMAIN timeboxes :
          /\ last.orders = << [id |-> id, display_order |-> 2],
                              [id |-> id, display_order |-> 1] >>
          /\ timeboxes[id].display_order = Some(1)


(* The callers that are inside a command, past lock(). *)
Inside(p) == {c \in Callers : p[c].op # "none" /\ p[c].step > 0}

(* The store a command started on p.before leaves when it runs alone. *)
AloneEffect(p) ==
    CASE p.op = "stop" ->
           << UpdateWhereId(p.before[1], p.id,
                  [i \in DOMAIN p.before[1] |-> StopRow(p.before[1][i], p.t)]),
              CloseSessionsStopped(p.before[2], p.id, p.t),
              p.before[3] >>
      [] p.op = "reorder" ->
           << ApplyOrders(p.before[1], p.orders, p.t), p.before[2], p.before[3] >>
      [] OTHER -> p.before

(* C26: with several callers issuing commands concurrently, each command   *)
(* runs entirely under the one store lock: at most one caller is inside a  *)
(* command whenever a step is taken, so no statement (a reader's SELECT    *)
(* included) runs while another command is part-way, and a command that    *)
(* returns leaves the store it would have left running alone on the store  *)
(* it found.                                                               *)
C26_CommandsRunOneAtATime ==
    [][ /\ Cardinality(Inside(pc)) <= 1
        /\ \A c \in Callers :
              (c \in Inside(pc) /\ pc'[c].op = "none") =>
                  /\ Inside(pc) = {c}
                  /\ store' = AloneEffect(pc[c]) ]_vars

(* C26 witness: the UI's stop has closed the session and not yet updated   *)
(* the timebox, which is still in_progress, while the idle trigger's       *)
(* get_active call waits in lock().                                        *)
C26_Witness ==
    /\ pc["ui"].op = "stop"
    /\ pc["ui"].step = 2
    /\ Exists(timeboxes, pc["ui"].id)
    /\ timeboxes[pc["ui"].id].status = InProgress
    /\ \E i \in SessionsOf(sessions, pc["ui"].id) :
          sessions[i].stopped_at = Some(pc["ui"].t)
    /\ OpenSessionsOf(sessions, pc["ui"].id) = {}
    /\ pc["idle_trigger"].op = "get_active"
    /\ pc["idle_trigger"].step = 0
    /\ db = {"ui"}


(* The ids in a list, as a set. *)
Range(list) == {list[k] : k \in DOMAIN list}

(* C27: the active view contains a timebox exactly when its started_at is  *)
(* non-null and its completed_at, after_time_stopped_at, canceled_at and   *)
(* deleted_at are all null, whatever its archived_at and status, and lists *)
(* them by created_at descending.                                          *)
C27_ActiveView ==
    \A rows \in active_rows(timeboxes) :
        LET list == Listed(rows)
        IN /\ Range(list) =
                  {id \in DOMAIN timeboxes :
                      /\ ~IsNull(timeboxes[id].started_at)
                      /\ IsNull(timeboxes[id].completed_at)
                      /\ IsNull(timeboxes[id].after_time_stopped_at)
                      /\ IsNull(timeboxes[id].canceled_at)
                      /\ IsNull(timeboxes[id].deleted_at)}
           /\ Range(list) = {e.id : e \in get_active_timeboxes(timeboxes, sessions, now)}
           /\ \A i, j \in DOMAIN list :
                  i < j => timeboxes[list[i]].created_at >= timeboxes[list[j]].created_at


(* Row a may stand before row b in the today view: by display_order        *)
(* ascending, a null display_order after every display_order that is set,  *)
(* ties and nulls by created_at descending.                                *)
TodayOrderOk(a, b) ==
    /\ ~(IsNull(a.display_order) /\ ~IsNull(b.display_order))
    /\ (~IsNull(a.display_order) /\ ~IsNull(b.display_order)) =>
           /\ Val(a.display_order) <= Val(b.display_order)
           /\ Val(a.display_order) = Val(b.display_order) => a.created_at >= b.created_at
    /\ (IsNull(a.display_order) /\ IsNull(b.display_order)) => a.created_at >= b.created_at

(* C28: the today view lists exactly the timeboxes that are not deleted,   *)
(* not archived and created on the current local date, by display_order    *)
(* ascending with every null display_order after every display_order that  *)
(* is set, however large, ties and nulls by created_at descending.         *)
C28_TodayView ==
    \A rows \in today_rows(timeboxes, now) :
        LET list == Listed(rows)
        IN /\ Range(list) =
                  {id \in DOMAIN timeboxes :
                      /\ IsNull(timeboxes[id].deleted_at)
                      /\ IsNull(timeboxes[id].archived_at)
                      /\ Date(timeboxes[id].created_at) = Date(now)}
           /\ Range(list) = {e.id : e \in get_today_timeboxes(timeboxes, sessions, now)}
           /\ \A i, j \in DOMAIN list :
                  i < j => TodayOrderOk(timeboxes[list[i]], timeboxes[list[j]])


(* The ids a view returns. *)
IdsIn(view) == {e.id : e \in view}

(* A timebox that is not deleted and was created on the date of time t. *)
CreatedTodayNotDeleted(tb, t) == IsNull(tb.deleted_at) /\ Date(tb.created_at) = Date(t)

(* C29: a non-deleted timebox created today is in exactly one of the today *)
(* view and the archived view; archive(id) takes it out of today and into  *)
(* archived, unarchive(id) takes it back; and unarchive straight after     *)
(* archive leaves archived_at null and every field except updated_at as it *)
(* was before the archive (archive changing nothing but archived_at and    *)
(* updated_at).                                                            *)
C29_TodayOrArchived ==
    [][ \A id \in DOMAIN timeboxes :
          LET today == IdsIn(get_today_timeboxes(timeboxes, sessions, now))
              archived == IdsIn(get_archived_timeboxes(timeboxes, sessions, now))
              todayAfter == IdsIn(get_today_timeboxes(timeboxes', sessions', now'))
              archivedAfter == IdsIn(get_archived_timeboxes(timeboxes', sessions', now'))
          IN /\ CreatedTodayNotDeleted(timeboxes[id], now) =>
                    (id \in today) # (id \in archived)
             /\ (/\ last'.op = "archive"
                 /\ CreatedTodayNotDeleted(timeboxes[id], now)
                 /\ archive_timebox(id)) =>
                    /\ id \in archivedAfter /\ id \notin todayAfter
                    /\ OnlyColumnsChanged(timeboxes, timeboxes', {"archived_at", "updated_at"})
             /\ (/\ last'.op = "unarchive"
                 /\ CreatedTodayNotDeleted(timeboxes[id], now)
                 /\ unarchive_timebox(id)) =>
                    /\ id \in todayAfter /\ id \notin archivedAfter
                    /\ IsNull(timeboxes'[id].archived_at)
                    /\ OnlyColumnsChanged(timeboxes, timeboxes', {"archived_at", "updated_at"})
      ]_vars


(* C30: closing is idempotent: stop, pause, finish, stop_after_time or     *)
(* cancel on a timebox with zero open sessions succeeds without error and  *)
(* modifies no session, and a stop(id) that directly follows a stop(id)    *)
(* leaves the store as the first left it: the session keeps its stopped_at *)
(* and the timebox is not changed again.                                   *)
C30_ClosingIsIdempotent ==
    [][ \A id \in DOMAIN timeboxes :
          /\ (/\ last'.op \in {"stop", "pause", "finish", "stop_after_time", "cancel"}
              /\ OpenSessionsOf(sessions, id) = {}
              /\ \/ stop_timebox(id)
                 \/ pause_timebox(id)
                 \/ finish_timebox(id)
                 \/ stop_timebox_after_time(id)
                 \/ cancel_timebox(id)) =>
                 (last'.result = "Ok" /\ sessions' = sessions)
          /\ (/\ last.op = "stop"
              /\ last.id = id
              /\ last'.op = "stop"
              /\ stop_timebox(id)) =>
                 (sessions' = sessions /\ timeboxes' = timeboxes) ]_vars


(* The marker columns that are set by one transition and kept for good. *)
SetOnceColumns == {"canceled_at", "deleted_at", "finished_at", "after_time_stopped_at"}

(* C31: each of canceled_at, deleted_at, finished_at and                   *)
(* after_time_stopped_at is set at most once: once it is non-null no       *)
(* command (a repeated cancel, delete, finish or stop_after_time and a     *)
(* restart included) changes its value or resets it to null.               *)
C31_MarkersSetOnce ==
    [][ \A id \in DOMAIN timeboxes :
          \A c \in SetOnceColumns :
              ~IsNull(timeboxes[id][c]) => timeboxes'[id][c] = timeboxes[id][c] ]_vars


(* The ids of the rows a table holds. *)
RowsOf(table) == {k \in DOMAIN table : table[k] # Removed}

(* Every row of table refers to a timebox that tbs holds. *)
RefersToTimeboxes(table, tbs) ==
    \A k \in RowsOf(table) : table[k].timebox_id \in RowsOf(tbs)

(* C32: every session and every change-log entry has the timebox_id of an  *)
(* existing timebox; inserting one for a timebox that does not exist fails *)
(* and adds nothing; removing a timebox's row removes all of its sessions  *)
(* and change-log entries and leaves every other row as it was.            *)
C32_ReferentialIntegrity ==
    [][ /\ RefersToTimeboxes(sessions', timeboxes')
        /\ RefersToTimeboxes(timebox_change_log', timeboxes')
        /\ (/\ last'.op \in {"insert_session", "insert_change_log", "start"}
            /\ issued' # issued
            /\ last'.id \notin RowsOf(timeboxes)) =>
               (last'.result = "Err" /\ store' = store)
        /\ \A id \in RowsOf(timeboxes) :
              (last'.op = "delete_from_timeboxes" /\ delete_from_timeboxes(id)) =>
                  /\ RowsOf(timeboxes') = RowsOf(timeboxes) \ {id}
                  /\ \A other \in RowsOf(timeboxes') : timeboxes'[other] = timeboxes[other]
                  /\ RowsOf(sessions') = {k \in RowsOf(sessions) : sessions[k].timebox_id # id}
                  /\ \A k \in RowsOf(sessions') : sessions'[k] = sessions[k]
                  /\ RowsOf(timebox_change_log') =
                         {k \in RowsOf(timebox_change_log) : timebox_change_log[k].timebox_id # id}
                  /\ \A k \in RowsOf(timebox_change_log') :
                         timebox_change_log'[k] = timebox_change_log[k] ]_vars

(* C32 witness: the last statement removed the row of a timebox that had a *)
(* session or a change-log entry, which is gone with it, and another       *)
(* timebox is still there.                                                 *)
C32_Witness ==
    /\ last.op = "delete_from_timeboxes"
    /\ last.id \in DOMAIN timeboxes
    /\ timeboxes[last.id] = Removed
    /\ \/ \E k \in DOMAIN sessions : sessions[k] = Removed
       \/ \E k \in DOMAIN timebox_change_log : timebox_change_log[k] = Removed
    /\ RowsOf(timeboxes) # {}


(* C33: in every reachable state every timebox has a non-empty intention   *)
(* and an intended_duration above zero.                                    *)
C33_StoredTimeboxesValid ==
    \A id \in DOMAIN timeboxes :
        /\ timeboxes[id].intention # ""
        /\ timeboxes[id].intended_duration > 0


(* C34: a stored status string outside the six known ones is not read as   *)
(* a timebox with status not_started (reading it fails), and for the six   *)
(* known statuses the mapping round-trips: from_str(as_str(v)) = v.        *)
KnownStatusStrings == {as_str(v) : v \in TimeboxStatus}

C34_UnknownStatusFails ==
    /\ \A id \in DOMAIN timeboxes :
          timeboxes[id].status \notin KnownStatusStrings
              => StatusRead(timeboxes[id]) # "NotStarted"
    /\ \A v \in TimeboxStatus : from_str(as_str(v)) = v

(* The round trip alone, on the six variants and on every stored known     *)
(* string.                                                                 *)
C34_KnownStatusesRoundTrip ==
    /\ \A v \in TimeboxStatus : from_str(as_str(v)) = v
    /\ \A id \in DOMAIN timeboxes :
          timeboxes[id].status \in KnownStatusStrings
              => as_str(StatusRead(timeboxes[id])) = timeboxes[id].status


(* C35: a list command whose query selected a row that does not decode     *)
(* returns an error; one that returns Ok returns every row its query       *)
(* selected (today, active and archived view, session list, change-log     *)
(* list).                                                                  *)
CompleteOrErr(reply, selected) == reply.result = "Ok" => reply.rows = selected

C35_ViewsFailOnDecodeError ==
    /\ LET sel == {i \in DOMAIN timeboxes : TodayWhere(timeboxes[i], now)}
       IN CompleteOrErr(CollectOk(sel, DecodedTimeboxes(sel)), sel)
    /\ LET sel == {i \in DOMAIN timeboxes : ActiveWhere(timeboxes[i])}
       IN CompleteOrErr(CollectOk(sel, DecodedTimeboxes(sel)), sel)
    /\ LET sel == {i \in DOMAIN timeboxes : ArchivedWhere(timeboxes[i], now)}
       IN CompleteOrErr(CollectOk(sel, DecodedTimeboxes(sel)), sel)
    /\ \A id \in DOMAIN timeboxes :
          /\ CompleteOrErr(CollectOk(SessionsOf(sessions, id),
                                     get_sessions_for_timebox(sessions, id)),
                           SessionsOf(sessions, id))
          /\ LET sel == {k \in DOMAIN timebox_change_log :
                            timebox_change_log[k].timebox_id = id}
             IN CompleteOrErr(CollectOk(sel, get_timebox_change_log(timebox_change_log, id)), sel)


(* C36: in every reachable state a timebox whose status is paused,         *)
(* stopped, completed or cancelled has no open session.                    *)
OpenOf(ss, id) == {i \in SessionsOf(ss, id) : IsOpen(ss[i])}

C36_ClosedStatusHasNoOpenSession ==
    \A id \in DOMAIN timeboxes :
        timeboxes[id].status \in {Paused, Stopped, Completed, Cancelled}
            => OpenOf(sessions, id) = {}

(* C36 witness: a pause has just closed two sessions of a timebox that     *)
(* were open at once, and the timebox is paused.                           *)
C36_Witness ==
    /\ last.op = "pause"
    /\ Exists(timeboxes, last.id)
    /\ timeboxes[last.id].status = Paused
    /\ Cardinality({i \in SessionsOf(sessions, last.id) :
                        sessions[i].stopped_at = Some(now)}) >= 2
    /\ OpenOf(sessions, last.id) = {}

(* C37: in every reachable state a timebox whose status is in_progress has *)
(* exactly one open session, stop_session and cancel_session included.     *)
C37_InProgressHasOneOpenSession ==
    \A id \in DOMAIN timeboxes :
        timeboxes[id].status = InProgress
            => Cardinality(OpenOf(sessions, id)) = 1


(* C38: immediately after a start(id) of a stored timebox (one whose       *)
(* UPDATE and INSERT took effect), the timebox is in the active view,      *)
(* whatever its earlier history.                                           *)
C38_StartedIsActive ==
    [][ \A id \in DOMAIN timeboxes :
          (/\ last'.op = "start"
           /\ last'.id = id
           /\ start_timebox(id)) =>
              id \in IdsIn(get_active_timeboxes(timeboxes', sessions', now')) ]_vars

(* The same of the rows the active view's query selects, before any row is *)
(* decoded.                                                                *)
C38_StartedIsSelected ==
    [][ \A id \in DOMAIN timeboxes :
          (/\ last'.op = "start"
           /\ last'.id = id
           /\ start_timebox(id)) =>
              ActiveWhere(timeboxes'[id]) ]_vars


(* C39: in every reachable state a timebox's started_at is non-null        *)
(* exactly when the timebox has at least one session, it then equals the   *)
(* earliest started_at among its sessions, and a timebox with status       *)
(* not_started has started_at null and no sessions.                        *)
C39_StartedAtMatchesSessions ==
    \A id \in DOMAIN timeboxes :
        LET mine == SessionsOf(sessions, id)
        IN /\ ~IsNull(timeboxes[id].started_at) <=> mine # {}
           /\ mine # {} =>
                 /\ \E i \in mine : timeboxes[id].started_at = Some(sessions[i].started_at)
                 /\ \A i \in mine : Val(timeboxes[id].started_at) <= sessions[i].started_at
           /\ timeboxes[id].status = NotStarted =>
                 IsNull(timeboxes[id].started_at) /\ mine = {}

(* C40: status and marker timestamps agree in every reachable state:       *)
(* completed implies completed_at and one of finished_at /                 *)
(* after_time_stopped_at non-null; stopped implies completed_at non-null;  *)
(* cancelled implies canceled_at non-null; in_progress implies             *)
(* completed_at null.                                                      *)
C40_StatusMatchesMarkers ==
    \A id \in DOMAIN timeboxes :
        LET tb == timeboxes[id]
        IN /\ tb.status = Completed =>
                 /\ ~IsNull(tb.completed_at)
                 /\ ~IsNull(tb.finished_at) \/ ~IsNull(tb.after_time_stopped_at)
           /\ tb.status = Stopped => ~IsNull(tb.completed_at)
           /\ tb.status = Cancelled => ~IsNull(tb.canceled_at)
           /\ tb.status = InProgress => IsNull(tb.completed_at)

=============================================================================
